---- MODULE Spec2Model ----
(***************************************************************************)
(* Model of the struct combinators of fp-ts (src/src/struct.ts): evolve,   *)
(* refine, parse, compactS, unCompact and traverseS, and of the field      *)
(* utilities pick, omit, renameAt, mapAt, modifyAt, updateAt, mapAtE,      *)
(* insertAt, let, bind and the assign semigroup.                           *)
(*                                                                         *)
(* JavaScript values are records of one shape,                             *)
(*     [k : kind, n : number, s : string, props : sequence of properties]  *)
(* where a property is [name, own, val]: `own` tells an own property from  *)
(* one reached through the prototype chain, and the order of `props` is    *)
(* the insertion order that Object.keys and for-in enumerate.  Closures    *)
(* are values of kind "function" whose captured variables are their props. *)
(*                                                                         *)
(* Where object identity matters (an operation writing into an object),    *)
(* objects live in a heap, a sequence of objects addressed by index, and   *)
(* a value of kind "ref" stands for the object at that address.            *)
(***************************************************************************)
EXTENDS Integers, Sequences, FiniteSets, TLC

VARIABLES ta, f, op, res, calls, tb, heap

vars == <<ta, f, op, res, calls, tb, heap>>

-----------------------------------------------------------------------------
(* Bounds of the model *)

MaxFields == 3

-----------------------------------------------------------------------------
(* JavaScript values *)

Undef == [k |-> "undefined", n |-> 0, s |-> "", props |-> <<>>]

Null == [k |-> "null", n |-> 0, s |-> "", props |-> <<>>]

Num(i) == [k |-> "number", n |-> i, s |-> "", props |-> <<>>]

Str(x) == [k |-> "string", n |-> 0, s |-> x, props |-> <<>>]

Obj(ps) == [k |-> "object", n |-> 0, s |-> "", props |-> ps]

\* an array; its elements are the props, in index order, each named "#"
Arr(items) == [k |-> "array", n |-> 0, s |-> "",
               props |-> [i \in 1..Len(items) |-> [name |-> "#", own |-> TRUE, val |-> items[i]]]]

\* the elements of an array
Items(a) == [i \in 1..Len(a.props) |-> a.props[i].val]

Fn(name, captured) == [k |-> "function", n |-> 0, s |-> name, props |-> captured]

\* the outcome of a call that ended in a raised TypeError instead of a value
Throw == [k |-> "throw", n |-> 0, s |-> "TypeError", props |-> <<>>]

Prop(name, v) == [name |-> name, own |-> TRUE, val |-> v]

\* a property the object reaches only through its prototype
ProtoProp(name, v) == [name |-> name, own |-> FALSE, val |-> v]

IsNullish(v) == v.k \in {"undefined", "null"}

\* typeof v === 'object'
TypeofObject(v) == v.k \in {"object", "array", "null"}

\* !!v
Truthy(v) ==
    CASE v.k \in {"undefined", "null"} -> FALSE
      [] v.k = "number" -> v.n # 0
      [] v.k = "string" -> v.s # ""
      [] OTHER -> TRUE

OwnProps(o) == SelectSeq(o.props, LAMBDA p : p.own)

\* Object.keys(o): the own enumerable property names, in insertion order
ObjectKeys(o) == [i \in 1..Len(OwnProps(o)) |-> OwnProps(o)[i].name]

OwnNames(o) == {o.props[i].name : i \in {j \in 1..Len(o.props) : o.props[j].own}}

\* Object.prototype.hasOwnProperty.call(o, name)
HasOwn(o, name) == name \in OwnNames(o)

\* name in o
In(name, o) == \E i \in 1..Len(o.props) : o.props[i].name = name

\* o[name] for a non-nullish o: own property first, then the prototype's
Get(o, name) ==
    IF HasOwn(o, name)
    THEN (CHOOSE p \in {o.props[i] : i \in 1..Len(o.props)} : p.own /\ p.name = name).val
    ELSE IF In(name, o)
    THEN (CHOOSE p \in {o.props[i] : i \in 1..Len(o.props)} : p.name = name).val
    ELSE Undef

\* o[name] = v on an object: overwrite the own property or add one
Set(o, name, v) ==
    IF HasOwn(o, name)
    THEN [o EXCEPT !.props = [i \in 1..Len(o.props) |->
            IF o.props[i].own /\ o.props[i].name = name
            THEN Prop(name, v) ELSE o.props[i]]]
    ELSE [o EXCEPT !.props = Append(o.props, Prop(name, v))]

RECURSIVE AssignAll(_, _)
AssignAll(target, ps) ==
    IF ps = <<>> THEN target
    ELSE AssignAll(Set(target, Head(ps).name, Head(ps).val), Tail(ps))

\* {...a, ...b}: the own enumerable properties of a, then those of b
Spread(a, b) == AssignAll(AssignAll(Obj(<<>>), OwnProps(a)), OwnProps(b))

\* a struct seen as an unordered map of its own fields (deepStrictEqual
\* does not look at key order)
AsMap(o) == [name \in OwnNames(o) |-> Get(o, name)]

-----------------------------------------------------------------------------
(* Option, Either and the string Ord, as the struct module imports them *)

none == Obj(<<Prop("_tag", Str("None"))>>)

some(a) == Obj(<<Prop("_tag", Str("Some")), Prop("value", a)>>)

left(e) == Obj(<<Prop("_tag", Str("Left")), Prop("left", e)>>)

right(a) == Obj(<<Prop("_tag", Str("Right")), Prop("right", a)>>)

\* fa._tag === tag, for a non-nullish fa
TagIs(fa, tag) == Get(fa, "_tag") = Str(tag)

\* a == null ? none : some(a)
fromNullable(a) == IF IsNullish(a) THEN none ELSE some(a)

Alphabet == <<"a", "b", "c", "d", "e">>

KeyRank(x) == CHOOSE i \in 1..Len(Alphabet) : Alphabet[i] = x

\* string Ord: compare(second)(first), -1 | 0 | 1
StringOrd_compare(first, second) ==
    IF KeyRank(first) < KeyRank(second) THEN -1
    ELSE IF KeyRank(first) > KeyRank(second) THEN 1 ELSE 0

RECURSIVE InsertSorted(_, _)
InsertSorted(x, sorted) ==
    IF sorted = <<>> THEN <<x>>
    ELSE IF StringOrd_compare(x, Head(sorted)) <= 0 THEN <<x>> \o sorted
    ELSE <<Head(sorted)>> \o InsertSorted(x, Tail(sorted))

RECURSIVE SortNames(_)
SortNames(names) ==
    IF names = <<>> THEN <<>>
    ELSE InsertSorted(Head(names), SortNames(Tail(names)))

\* ReadonlyRecord.keys(O)(r): Object.keys(r).sort(O.compare)
R_keys(r) == SortNames(ObjectKeys(r))

-----------------------------------------------------------------------------
(* Closures built by traverseS (and by ReadonlyRecord.traverseWithIndex) *)

\* (r) => ({ [key]: r })
FnSingleton(key) == Fn("singleton", <<Prop("key", Str(key))>>)

\* (r) => (b) => { r[key] = b; return r }
FnAssignTo(key) == Fn("assignTo", <<Prop("key", Str(key))>>)

\* (r) => { r[key] = raw; return r }
FnAssignRaw(key, raw) == Fn("assignRaw", <<Prop("key", Str(key)), Prop("raw", raw)>>)

\* fn(arg)
Call(fn, arg) ==
    CASE fn.s = "singleton" -> Obj(<<Prop(Get(fn, "key").s, arg)>>)
      [] fn.s = "assignTo" -> Fn("assign", <<Prop("key", Get(fn, "key")), Prop("r", arg)>>)
      [] fn.s = "assign" -> Set(Get(fn, "r"), Get(fn, "key").s, arg)
      [] fn.s = "assignRaw" -> Set(arg, Get(fn, "key").s, Get(fn, "raw"))

\* F.map(fn)(fa) of the Option and of the Either (validation) instance.
\* Both read fa._tag first, which raises a TypeError on null and undefined.
F_map(F, fn, fa) ==
    IF IsNullish(fa) \/ fa = Throw THEN Throw
    ELSE IF F = "Option"
    THEN IF TagIs(fa, "None") THEN none ELSE some(Call(fn, Get(fa, "value")))
    ELSE IF TagIs(fa, "Left") THEN fa ELSE right(Call(fn, Get(fa, "right")))

\* F.ap(fa)(fab); the validation instance concatenates the two error arrays
F_ap(F, fa, fab) ==
    IF IsNullish(fab) \/ fab = Throw \/ IsNullish(fa) \/ fa = Throw THEN Throw
    ELSE IF F = "Option"
    THEN IF TagIs(fab, "None") THEN none
         ELSE IF TagIs(fa, "None") THEN none
         ELSE some(Call(Get(fab, "value"), Get(fa, "value")))
    ELSE IF TagIs(fab, "Left")
         THEN IF TagIs(fa, "Left")
              THEN left(Arr(Items(Get(fab, "left")) \o Items(Get(fa, "left"))))
              ELSE fab
         ELSE IF TagIs(fa, "Left") THEN fa
         ELSE right(Call(Get(fab, "right"), Get(fa, "right")))

-----------------------------------------------------------------------------
(* Objects with identity: the heap *)

\* the object at address i of the heap
Ref(i) == [k |-> "ref", n |-> i, s |-> "", props |-> <<>>]

\* a new object: what an object literal, {} or a spread evaluates to
HeapAlloc(h, o) == [heap |-> Append(h, o), val |-> Ref(Len(h) + 1)]

\* r[name] = v on the object r refers to
HeapSet(h, r, name, v) == [h EXCEPT ![r.n] = Set(@, name, v)]

\* delete r[name] on the object r refers to
HeapDelete(h, r, name) ==
    [h EXCEPT ![r.n] = [@ EXCEPT !.props =
        SelectSeq(@, LAMBDA p : ~(p.own /\ p.name = name))]]

\* the value v with every reference replaced by the object it refers to
RECURSIVE Resolve(_, _)
Resolve(h, v) ==
    IF v.k = "ref" THEN Resolve(h, h[v.n])
    ELSE [v EXCEPT !.props = [i \in 1..Len(v.props) |->
             [v.props[i] EXCEPT !.val = Resolve(h, v.props[i].val)]]]

\* fn(arg) where the closures of traverseS work on references: the outcome
\* is [heap, val]
CallRef(h, fn, arg) ==
    CASE fn.s = "singleton" -> HeapAlloc(h, Obj(<<Prop(Get(fn, "key").s, arg)>>))
      [] fn.s = "assignTo" ->
           [heap |-> h, val |-> Fn("assign", <<Prop("key", Get(fn, "key")), Prop("r", arg)>>)]
      [] fn.s = "assign" ->
           [heap |-> HeapSet(h, Get(fn, "r"), Get(fn, "key").s, arg), val |-> Get(fn, "r")]
      [] fn.s = "assignRaw" ->
           [heap |-> HeapSet(h, arg, Get(fn, "key").s, Get(fn, "raw")), val |-> arg]

\* items.map(fn): [heap, vals]
RECURSIVE MapItems(_, _, _)
MapItems(h, fn, items) ==
    IF items = <<>> THEN [heap |-> h, vals |-> <<>>]
    ELSE LET c == CallRef(h, fn, Head(items))
             rest == MapItems(c.heap, fn, Tail(items))
         IN [heap |-> rest.heap, vals |-> <<c.val>> \o rest.vals]

\* fns.flatMap(fn => items.map(fn)): [heap, vals]
RECURSIVE ChainItems(_, _, _)
ChainItems(h, fns, items) ==
    IF fns = <<>> THEN [heap |-> h, vals |-> <<>>]
    ELSE LET c == MapItems(h, Head(fns), items)
             rest == ChainItems(c.heap, Tail(fns), items)
         IN [heap |-> rest.heap, vals |-> c.vals \o rest.vals]

\* F.map(fn)(fa) of the Identity, Option, ReadonlyArray and Either
\* (validation) instances: [heap, val]
F_map_ref(h, F, fn, fa) ==
    IF F = "Identity" THEN CallRef(h, fn, fa)
    ELSE IF IsNullish(fa) \/ fa = Throw THEN [heap |-> h, val |-> Throw]
    ELSE IF F = "ReadonlyArray"
    THEN IF fa.k = "array"
         THEN [heap |-> MapItems(h, fn, Items(fa)).heap,
               val |-> Arr(MapItems(h, fn, Items(fa)).vals)]
         ELSE [heap |-> h, val |-> Throw]
    ELSE IF F = "Option"
    THEN IF TagIs(fa, "None") THEN [heap |-> h, val |-> none]
         ELSE [heap |-> CallRef(h, fn, Get(fa, "value")).heap,
               val |-> some(CallRef(h, fn, Get(fa, "value")).val)]
    ELSE IF TagIs(fa, "Left") THEN [heap |-> h, val |-> fa]
         ELSE [heap |-> CallRef(h, fn, Get(fa, "right")).heap,
               val |-> right(CallRef(h, fn, Get(fa, "right")).val)]

\* F.ap(fa)(fab) of the same instances: [heap, val]
F_ap_ref(h, F, fa, fab) ==
    IF fab = Throw THEN [heap |-> h, val |-> Throw]
    ELSE IF F = "Identity" THEN CallRef(h, fab, fa)
    ELSE IF IsNullish(fab) \/ IsNullish(fa) \/ fa = Throw THEN [heap |-> h, val |-> Throw]
    ELSE IF F = "ReadonlyArray"
    THEN IF fa.k = "array" /\ fab.k = "array"
         THEN [heap |-> ChainItems(h, Items(fab), Items(fa)).heap,
               val |-> Arr(ChainItems(h, Items(fab), Items(fa)).vals)]
         ELSE [heap |-> h, val |-> Throw]
    ELSE IF F = "Option"
    THEN IF TagIs(fab, "None") \/ TagIs(fa, "None") THEN [heap |-> h, val |-> none]
         ELSE [heap |-> CallRef(h, Get(fab, "value"), Get(fa, "value")).heap,
               val |-> some(CallRef(h, Get(fab, "value"), Get(fa, "value")).val)]
    ELSE IF TagIs(fab, "Left")
         THEN [heap |-> h,
               val |-> IF TagIs(fa, "Left")
                       THEN left(Arr(Items(Get(fab, "left")) \o Items(Get(fa, "left"))))
                       ELSE fab]
         ELSE IF TagIs(fa, "Left") THEN [heap |-> h, val |-> fa]
         ELSE [heap |-> CallRef(h, Get(fab, "right"), Get(fa, "right")).heap,
               val |-> right(CallRef(h, Get(fab, "right"), Get(fa, "right")).val)]

-----------------------------------------------------------------------------
(* ReadonlyRecord helpers the struct module calls *)

\* The callback g of a helper is given by its graph on the own fields of r:
\* g[k] is g(k, r[k]).

\* R.mapWithIndex(g)(r): for (k in r) if (has.call(r, k)) out[k] = g(k, r[k])
R_mapWithIndex(g, r) ==
    Obj([i \in 1..Len(OwnProps(r)) |-> Prop(OwnProps(r)[i].name, g[OwnProps(r)[i].name])])

\* R.partitionMapWithIndex(g)(r): separated(left, right) by the tag of g(k, r[k])
R_partitionMapWithIndex(g, r) ==
    LET es == [i \in 1..Len(OwnProps(r)) |->
                 Prop(OwnProps(r)[i].name, g[OwnProps(r)[i].name])]
        ls == SelectSeq(es, LAMBDA p : TagIs(p.val, "Left"))
        rs == SelectSeq(es, LAMBDA p : TagIs(p.val, "Right"))
    IN [left |-> Obj([i \in 1..Len(ls) |-> Prop(ls[i].name, Get(ls[i].val, "left"))]),
        right |-> Obj([i \in 1..Len(rs) |-> Prop(rs[i].name, Get(rs[i].val, "right"))])]

\* R.partition(pred)(r): left holds the fields failing pred, right those passing
R_partition(pred, r) ==
    [left |-> Obj(SelectSeq(OwnProps(r), LAMBDA p : ~pred[p.name])),
     right |-> Obj(SelectSeq(OwnProps(r), LAMBDA p : pred[p.name]))]

\* R.filterMap(identity)(r): keeps r[k].value of the fields with r[k]._tag === 'Some'
R_filterMap_identity(r) ==
    LET ss == SelectSeq(OwnProps(r), LAMBDA p : TagIs(p.val, "Some"))
    IN Obj([i \in 1..Len(ss) |-> Prop(ss[i].name, Get(ss[i].val, "value"))])

RECURSIVE TraverseFold(_, _, _, _)
TraverseFold(F, ks, effs, fr) ==
    IF ks = <<>> THEN fr
    ELSE TraverseFold(F, Tail(ks), Tail(effs),
                      F_ap(F, Head(effs), F_map(F, FnAssignTo(Head(ks)), fr)))

\* R.traverseWithIndex(O)(F)(g)(r) for the Option applicative: starting from
\* F.of({}), one ap per key in the order of O
R_traverseWithIndex(g, r) ==
    LET ks == R_keys(r)
        effs == [i \in 1..Len(ks) |-> g[ks[i]]]
    IN TraverseFold("Option", ks, effs, some(Obj(<<>>)))

-----------------------------------------------------------------------------
(* The handlers a caller passes in: the handler map f maps a field name to *)
(* the name of one of these functions.                                     *)

EvolveHandlers == {"succ", "typeName"}

RefineHandlers == {"isOne", "isNumber"}

ParseHandlers == {"parseOne", "parseNumber"}

OptionHandlers == {"optOne", "optSome"}

ValidationHandlers == {"valOne", "valFail"}

\* handlers of the ReadonlyArray effect: two outcomes, or one
ArrayHandlers == {"both", "single"}

\* h(v) for the handler named h of the field key
Handler(h, key, v) ==
    CASE h = "succ" -> IF v.k = "number" THEN Num(v.n + 1) ELSE Null
      [] h = "typeName" -> Str(v.k)
      [] h = "parseOne" -> IF v = Num(1) THEN right(Str("one")) ELSE left(Str("notOne"))
      [] h = "parseNumber" -> IF v.k = "number" THEN right(Num(v.n + 1)) ELSE left(Str("notNumber"))
      [] h = "optOne" -> IF v = Num(1) THEN some(Str("one")) ELSE none
      [] h = "optSome" -> some(v)
      [] h = "valOne" -> IF v = Num(1) THEN right(Str("one")) ELSE left(Arr(<<Str(key)>>))
      [] h = "valFail" -> left(Arr(<<Str(key)>>))
      [] h = "both" -> Arr(<<v, Str(key)>>)
      [] h = "single" -> Arr(<<v>>)

\* p(v) for the predicate named h
Predicate(h, v) ==
    CASE h = "isOne" -> v = Num(1)
      [] h = "isNumber" -> v.k = "number"

-----------------------------------------------------------------------------
(* src/src/struct.ts *)

\* evolve with the fields that have no handler left out of the result
evolve_dropsUnhandled(fm, a) ==
    Obj(SelectSeq(
        R_mapWithIndex([k \in OwnNames(a) |->
                           IF k \in DOMAIN fm THEN Handler(fm[k], k, Get(a, k)) ELSE Get(a, k)],
                       a).props,
        LAMBDA p : p.name \in DOMAIN fm))

\* evolve(f)(a)
evolve(fm, a) ==
    R_mapWithIndex([k \in OwnNames(a) |->
                       IF k \in DOMAIN fm THEN Handler(fm[k], k, Get(a, k)) ELSE Get(a, k)],
                   a)

\* fromPredicate(p)(v)
fromPredicate(h, v) == IF Predicate(h, v) THEN some(v) ELSE none

\* refine with a field that has no predicate counted as failing
refine_rejectsUnrefined(predicates, fa) ==
    R_traverseWithIndex(
        [k \in OwnNames(fa) |->
            IF k \in DOMAIN predicates THEN fromPredicate(predicates[k], Get(fa, k))
            ELSE none],
        fa)

\* refine(predicates)(fa)
refine(predicates, fa) ==
    R_traverseWithIndex(
        [k \in OwnNames(fa) |->
            IF k \in DOMAIN predicates THEN fromPredicate(predicates[k], Get(fa, k))
            ELSE some(Get(fa, k))],
        fa)

\* the { left: failed, right: parsed } that parse destructures
parse_separated(fm, fa) ==
    R_partitionMapWithIndex(
        [k \in OwnNames(fa) |->
            IF k \in DOMAIN fm THEN Handler(fm[k], k, Get(fa, k)) ELSE right(Get(fa, k))],
        fa)

\* parse comparing the number of parsed fields with the number of parsers
parse_countsParsers(fm, fa) ==
    LET failed == parse_separated(fm, fa).left
        parsed == parse_separated(fm, fa).right
    IN IF Len(ObjectKeys(parsed)) = Cardinality(DOMAIN fm) THEN right(parsed) ELSE left(failed)

\* parse failing with the first error alone
parse_firstErrorOnly(fm, fa) ==
    LET failed == parse_separated(fm, fa).left
        parsed == parse_separated(fm, fa).right
    IN IF Len(ObjectKeys(parsed)) = Len(ObjectKeys(fa)) THEN right(parsed)
       ELSE left(Obj(<<Head(failed.props)>>))

\* parse counting the fields of fa with for-in, inherited ones included
parse_countsInherited(fm, fa) ==
    LET failed == parse_separated(fm, fa).left
        parsed == parse_separated(fm, fa).right
    IN IF Len(ObjectKeys(parsed)) = Len(fa.props) THEN right(parsed) ELSE left(failed)

\* parse(f)(fa)
parse(fm, fa) ==
    LET failed == parse_separated(fm, fa).left
        parsed == parse_separated(fm, fa).right
    IN IF Len(ObjectKeys(parsed)) = Len(ObjectKeys(fa)) THEN right(parsed) ELSE left(failed)

\* isOption(a)
isOption(a) ==
    /\ TypeofObject(a)
    /\ Truthy(a)
    /\ In("_tag", a)
    /\ \/ (TagIs(a, "Some") /\ In("value", a) /\ Len(ObjectKeys(a)) = 2)
       \/ TagIs(a, "None")

\* compactS leaving an absent field in place, set to undefined
compactS_restoresAbsent(r) ==
    LET sep == R_partition([k \in OwnNames(r) |-> isOption(Get(r, k))], r)
        gone == SelectSeq(sep.right.props, LAMBDA p : ~TagIs(p.val, "Some"))
    IN Spread(Spread(sep.left, R_filterMap_identity(sep.right)),
              Obj([i \in 1..Len(gone) |-> Prop(gone[i].name, Undef)]))

\* compactS(r)
compactS(r) ==
    LET sep == R_partition([k \in OwnNames(r) |-> isOption(Get(r, k))], r)
    IN Spread(sep.left, R_filterMap_identity(sep.right))

\* unCompact testing a[key] === undefined instead of a[key] == null
unCompact_undefinedOnly(a) ==
    LET ks == ObjectKeys(a)
    IN Obj([i \in 1..Len(ks) |->
              Prop(ks[i], IF Get(a, ks[i]) = Undef THEN none ELSE some(Get(a, ks[i])))])

\* unCompact(a)
unCompact(a) ==
    LET ks == ObjectKeys(a)
    IN Obj([i \in 1..Len(ks) |-> Prop(ks[i], fromNullable(Get(a, ks[i])))])

\* the for loop of traverseS from index i on; a refers to the input struct and
\* st = [heap, fr, calls], where calls lists the fields whose handler has been
\* invoked so far
RECURSIVE traverseS_loop(_, _, _, _, _, _)
traverseS_loop(F, fm, a, ks, i, st) ==
    IF i > Len(ks) \/ st.fr = Throw THEN st
    ELSE IF ks[i] \in DOMAIN fm
    THEN LET fab == F_map_ref(st.heap, F, FnAssignTo(ks[i]), st.fr)
             step == F_ap_ref(fab.heap, F,
                              Handler(fm[ks[i]], ks[i], Get(st.heap[a.n], ks[i])), fab.val)
         IN traverseS_loop(F, fm, a, ks, i + 1,
                [heap |-> step.heap, fr |-> step.val, calls |-> Append(st.calls, ks[i])])
    ELSE LET step == F_map_ref(st.heap, F,
                               FnAssignRaw(ks[i], Get(st.heap[a.n], ks[i])), st.fr)
         IN traverseS_loop(F, fm, a, ks, i + 1,
                [heap |-> step.heap, fr |-> step.val, calls |-> st.calls])

\* traverseS iterating in the host's enumeration order
traverseS_keys_unsorted(a) == ObjectKeys(a)

\* the keys traverseS iterates: R.keys(O)(ta)
traverseS_keys(a) == R_keys(a)

\* traverseS with the loop starting one field too late
traverseS_ref_skipsSecond(h, F, fm, a) ==
    LET ks == traverseS_keys(h[a.n])
        k0 == IF ks = <<>> THEN "undefined" ELSE ks[1]
        fk == k0 \in DOMAIN fm
        seed == IF fk THEN Handler(fm[k0], k0, Get(h[a.n], k0)) ELSE Get(h[a.n], k0)
        first == F_map_ref(h, F, FnSingleton(k0), seed)
    IN traverseS_loop(F, fm, a, ks, 3,
           [heap |-> first.heap, fr |-> first.val,
            calls |-> IF fk THEN <<k0>> ELSE <<>>])

\* traverseS(O)(F)(f)(ta) for the struct a refers to in the heap h:
\* [heap |-> the heap on return, fr |-> the returned effect, whose payload
\* refers to the struct built, calls |-> handler calls]
traverseS_ref(h, F, fm, a) ==
    LET ks == traverseS_keys(h[a.n])
        k0 == IF ks = <<>> THEN "undefined" ELSE ks[1]
        fk == k0 \in DOMAIN fm
        seed == IF fk THEN Handler(fm[k0], k0, Get(h[a.n], k0)) ELSE Get(h[a.n], k0)
        first == F_map_ref(h, F, FnSingleton(k0), seed)
    IN traverseS_loop(F, fm, a, ks, 2,
           [heap |-> first.heap, fr |-> first.val,
            calls |-> IF fk THEN <<k0>> ELSE <<>>])

\* traverseS(O)(F)(f)(ta) by value: [fr |-> the returned effect, calls |->
\* handler calls]
traverseS(F, fm, a) ==
    [fr |-> Resolve(traverseS_ref(<<a>>, F, fm, Ref(1)).heap,
                    traverseS_ref(<<a>>, F, fm, Ref(1)).fr),
     calls |-> traverseS_ref(<<a>>, F, fm, Ref(1)).calls]

\* the for...of loop of pick: o[k] = x[k] for every k of ks
RECURSIVE pick_loop(_, _, _, _)
pick_loop(h, o, ks, x) ==
    IF ks = <<>> THEN h
    ELSE pick_loop(HeapSet(h, o, Head(ks), Get(h[x.n], Head(ks))), o, Tail(ks), x)

\* pick starting from a copy of x instead of the empty object
pick_ref_fromCopy(h, ks, x) ==
    [heap |-> pick_loop(HeapAlloc(h, Spread(Obj(<<>>), h[x.n])).heap,
                        HeapAlloc(h, Spread(Obj(<<>>), h[x.n])).val, ks, x),
     val |-> HeapAlloc(h, Spread(Obj(<<>>), h[x.n])).val]

\* pick()(ks)(x) for the struct x refers to: [heap, val]
pick_ref(h, ks, x) ==
    [heap |-> pick_loop(HeapAlloc(h, Obj(<<>>)).heap, HeapAlloc(h, Obj(<<>>)).val, ks, x),
     val |-> HeapAlloc(h, Obj(<<>>)).val]

\* pick()(ks)(x) by value
pick(ks, x) == Resolve(pick_ref(<<x>>, ks, Ref(1)).heap, pick_ref(<<x>>, ks, Ref(1)).val)

\* the for...of loop of omit: delete y[k] for every k of ks
RECURSIVE omit_loop(_, _, _)
omit_loop(h, y, ks) ==
    IF ks = <<>> THEN h ELSE omit_loop(HeapDelete(h, y, Head(ks)), y, Tail(ks))

\* omit deleting from x itself, without the copy
omit_ref_inPlace(h, ks, x) == [heap |-> omit_loop(h, x, ks), val |-> x]

\* omit(ks)(x) for the struct x refers to: y = { ...x }, then the deletes
omit_ref(h, ks, x) ==
    [heap |-> omit_loop(HeapAlloc(h, Spread(Obj(<<>>), h[x.n])).heap,
                        HeapAlloc(h, Spread(Obj(<<>>), h[x.n])).val, ks),
     val |-> HeapAlloc(h, Spread(Obj(<<>>), h[x.n])).val]

\* omit(ks)(x) by value
omit(ks, x) == Resolve(omit_ref(<<x>>, ks, Ref(1)).heap, omit_ref(<<x>>, ks, Ref(1)).val)

\* pick(...ks)(x) of the revision with rest parameters: the same loop as pick
pick_rest(ks, x) == pick(ks, x)

\* ks.includes(k)
Includes(ks, k) == \E i \in 1..Len(ks) : ks[i] = k

\* omit(...ks)(x) of the revision with rest parameters:
\* for (const k of Object.keys(x)) if (!ks.includes(k)) o[k] = x[k]
omit_rest(ks, x) ==
    LET kept == SelectSeq(ObjectKeys(x), LAMBDA k : ~Includes(ks, k))
    IN Obj([i \in 1..Len(kept) |-> Prop(kept[i], Get(x, kept[i]))])

\* Object.assign(target, ...sources): writes the own fields of every source
\* into the target and returns the target
RECURSIVE Object_assign(_, _, _)
Object_assign(h, target, sources) ==
    IF sources = <<>> THEN [heap |-> h, val |-> target]
    ELSE Object_assign([h EXCEPT ![target.n] = AssignAll(@, OwnProps(h[Head(sources).n]))],
                       target, Tail(sources))

\* the assign semigroup's concat with the two sources swapped:
\* Object.assign({}, second, first)
getAssignSemigroup_concat_ref_swapped(h, second, first) ==
    Object_assign(HeapAlloc(h, Obj(<<>>)).heap, HeapAlloc(h, Obj(<<>>)).val, <<second, first>>)

\* getAssignSemigroup().concat(second)(first) for two structs of the heap:
\* Object.assign({}, first, second)
getAssignSemigroup_concat_ref(h, second, first) ==
    Object_assign(HeapAlloc(h, Obj(<<>>)).heap, HeapAlloc(h, Obj(<<>>)).val, <<first, second>>)

\* getAssignSemigroup().concat(second)(first) by value
getAssignSemigroup_concat(second, first) ==
    Resolve(getAssignSemigroup_concat_ref(<<first, second>>, Ref(2), Ref(1)).heap,
            getAssignSemigroup_concat_ref(<<first, second>>, Ref(2), Ref(1)).val)

\* constant(a): the function that returns a whatever its argument
constant(a) == Fn("constant", <<Prop("a", a)>>)

\* the handler named h as a function value
HandlerFn(h) == Fn(h, <<>>)

\* g(v) for a function value g applied to the field key
Apply(g, key, v) == IF g.s = "constant" THEN Get(g, "a") ELSE Handler(g.s, key, v)

\* F.map(fa, fn) of the Identity and of the Option functor, where y is fn
\* applied to the payload of fa
Functor_map(F, fa, y) ==
    IF F = "Identity" THEN y
    ELSE IF IsNullish(fa) THEN Throw
    ELSE IF TagIs(fa, "None") THEN none ELSE some(y)

\* the payload fn is applied to by F.map(fa, fn)
Functor_payload(F, fa) == IF F = "Identity" THEN fa ELSE Get(fa, "value")

\* the arrow function of mapAtE keeping the transformed field alone
mapAtE_fn_dropsRest(prop, g, x) ==
    Obj(<<Prop(prop, Apply(g, prop, Get(x, prop)))>>)

\* the arrow function of mapAtE applied to the struct x:
\* ({ [prop]: input, ...rest }) => ({ [prop]: f(input), ...rest })
mapAtE_fn(prop, g, x) ==
    Obj(<<Prop(prop, Apply(g, prop, Get(x, prop)))>>
        \o SelectSeq(OwnProps(x), LAMBDA p : p.name # prop))

\* mapAtE(F)(prop, f)(a)
mapAtE(F, prop, g, a) == Functor_map(F, a, mapAtE_fn(prop, g, Functor_payload(F, a)))

\* mapAt(prop, f)(a) = mapAtE(IDFunctor)(prop, f)(a)
mapAt(prop, g, a) == mapAtE("Identity", prop, g, a)

\* modifyAt = mapAt
modifyAt(prop, g, a) == mapAt(prop, g, a)

\* updateAt(prop, ap)(a) = modifyAt(prop, constant(ap))(a)
updateAt(prop, ap, a) == modifyAt(prop, constant(ap), a)

\* renameAt(from, to)(x): ({ [from]: val, ...rest }) => ({ [to]: val, ...rest })
renameAt(from, to, x) ==
    AssignAll(Obj(<<Prop(to, Get(x, from))>>),
              SelectSeq(OwnProps(x), LAMBDA p : p.name # from))

\* Identity's apS(name, fb)(fa): Object.assign({}, fa, { [name]: fb })
apS(name, fb, fa) == Spread(fa, Obj(<<Prop(name, fb)>>))

\* insertAt = apS
insertAt(prop, value, obj) == apS(prop, value, obj)

\* let(key, value)(t): ({ ...t, [key]: value })
letFn(key, value, t) == Spread(t, Obj(<<Prop(key, value)>>))

\* bind(key, fn)(obj): ({ ...obj, [key]: fn(obj) })
bind(key, fn, obj) == Spread(obj, Obj(<<Prop(key, Apply(fn, key, obj))>>))

-----------------------------------------------------------------------------
(* Inputs *)

Keys == {Alphabet[i] : i \in 1..MaxFields}

\* 1 passes the "One" handlers and predicates, 2 fails them
Numbers == {Num(1), Num(2)}

\* the ascending and the descending sequence of a set of field names
Ascending(K) == SelectSeq(Alphabet, LAMBDA x : x \in K)

Reverse(q) == [i \in 1..Len(q) |-> q[Len(q) + 1 - i]]

\* every arrangement of a set of field names
Arrangements(K) ==
    {q \in [1..Cardinality(K) -> K] : \A i, j \in 1..Cardinality(K) : q[i] = q[j] => i = j}

\* the structs with the fields `order`, inserted in that order, valued in V
StructsOver(order, V) ==
    {Obj([i \in 1..Len(order) |-> Prop(order[i], vs[i])]) : vs \in [1..Len(order) -> V]}

\* non-empty structs, fields inserted in ascending or in descending order
Structs(V) ==
    UNION {StructsOver(Ascending(K), V) \cup StructsOver(Reverse(Ascending(K)), V) :
             K \in (SUBSET Keys) \ {{}}}

\* sparse handler maps over the fields of a, drawn from the handlers H
HandlerMaps(a, H) == UNION {[K -> H] : K \in SUBSET OwnNames(a)}

FieldValues == {Null} \cup Numbers

-----------------------------------------------------------------------------
(* Specification of evolve, refine, parse and traverseS under Option *)

Init ==
    /\ ta \in Structs(FieldValues)
    /\ f \in HandlerMaps(ta, EvolveHandlers) \cup HandlerMaps(ta, RefineHandlers)
            \cup HandlerMaps(ta, ParseHandlers) \cup HandlerMaps(ta, OptionHandlers)
    /\ op = "none"
    /\ res = Undef
    /\ calls = <<>>
    /\ tb = Undef
    /\ heap = <<>>

Range(m) == {m[x] : x \in DOMAIN m}

Evolve ==
    /\ op = "none"
    /\ Range(f) \subseteq EvolveHandlers
    /\ op' = "evolve"
    /\ res' = evolve(f, ta)
    /\ UNCHANGED <<ta, f, calls, tb, heap>>

Refine ==
    /\ op = "none"
    /\ Range(f) \subseteq RefineHandlers
    /\ op' = "refine"
    /\ res' = refine(f, ta)
    /\ UNCHANGED <<ta, f, calls, tb, heap>>

Parse ==
    /\ op = "none"
    /\ Range(f) \subseteq ParseHandlers
    /\ op' = "parse"
    /\ res' = parse(f, ta)
    /\ UNCHANGED <<ta, f, calls, tb, heap>>

TraverseOption ==
    /\ op = "none"
    /\ Range(f) \subseteq OptionHandlers
    /\ op' = "traverseS"
    /\ res' = traverseS("Option", f, ta).fr
    /\ calls' = traverseS("Option", f, ta).calls
    /\ UNCHANGED <<ta, f, tb, heap>>

Next == Evolve \/ Refine \/ Parse \/ TraverseOption

Spec == Init /\ [][Next]_vars

-----------------------------------------------------------------------------
(* Properties of evolve, refine, parse and traverseS under Option *)

\* the handler's result for a handled field k of the input
Handled(k) == Handler(f[k], k, Get(ta, k))

\* v is an object with exactly the own properties `names` and no others
HasExactly(v, names) ==
    /\ v.k = "object"
    /\ OwnNames(v) = names
    /\ Len(v.props) = Cardinality(names)

\* C1: evolve(h)(s) has exactly the own fields of s; a field with a handler
\* holds handler(s[field]), a field without one holds s[field]; with no
\* handler at all the result equals s.
C1_EvolveFields ==
    op = "evolve" =>
        /\ HasExactly(res, OwnNames(ta))
        /\ \A k \in OwnNames(ta) :
              Get(res, k) = IF k \in DOMAIN f THEN Handled(k) ELSE Get(ta, k)
        /\ (DOMAIN f = {} => AsMap(res) = AsMap(ta))

C1_Witness ==
    /\ op = "evolve"
    /\ \E k \in OwnNames(ta) : k \in DOMAIN f /\ Get(res, k) # Get(ta, k)
    /\ \E k \in OwnNames(ta) : k \notin DOMAIN f

\* every handler of the map returns a present optional
AllPresent == \A k \in DOMAIN f : TagIs(Handled(k), "Some")

\* C2: traverseS under Option with a sparse handler map whose handlers all
\* return present yields present(s'), s' having the fields of s, the payload
\* of its handler in every handled field and the raw value of s elsewhere.
C2_SparseTraversePresent ==
    (op = "traverseS" /\ AllPresent) =>
        /\ HasExactly(res, {"_tag", "value"})
        /\ TagIs(res, "Some")
        /\ HasExactly(Get(res, "value"), OwnNames(ta))
        /\ \A k \in OwnNames(ta) :
              Get(Get(res, "value"), k) =
                  IF k \in DOMAIN f THEN Get(Handled(k), "value") ELSE Get(ta, k)

\* C3: traverseS under Option is absent as soon as one handler returns
\* absent, wherever that field stands in the iteration order.
C3_AbsentWhereverItStands ==
    (op = "traverseS" /\ \E k \in DOMAIN f : Handled(k) = none) => res = none

\* C5: refine(p)(s) is present(s), every value unchanged, exactly when every
\* field that has a predicate satisfies it, and absent otherwise; a field
\* without a predicate has no say.
C5_RefineConjunction ==
    op = "refine" =>
        IF \A k \in DOMAIN f : Predicate(f[k], Get(ta, k))
        THEN /\ HasExactly(res, {"_tag", "value"})
             /\ TagIs(res, "Some")
             /\ HasExactly(Get(res, "value"), OwnNames(ta))
             /\ AsMap(Get(res, "value")) = AsMap(ta)
        ELSE res = none

C5_Witness ==
    /\ op = "refine"
    /\ TagIs(res, "Some")
    /\ DOMAIN f # {}
    /\ \E k \in OwnNames(ta) : k \notin DOMAIN f /\ Get(ta, k) = Null

\* the fields whose parser returned a failure
FailedFields == {k \in DOMAIN f : TagIs(Handled(k), "Left")}

\* C6: parse succeeds exactly when no parser failed; its count check (parsed
\* fields = own fields) agrees with "the error map is empty" for every
\* handler map, the empty one included; the success holds the fields of s,
\* parsed where a parser exists and original elsewhere.
C6_ParseSuccessIffNoFailure ==
    op = "parse" =>
        /\ TagIs(res, "Right") <=> FailedFields = {}
        /\ (Len(ObjectKeys(parse_separated(f, ta).right)) = Len(ObjectKeys(ta)))
              <=> (ObjectKeys(parse_separated(f, ta).left) = <<>>)
        /\ OwnNames(parse_separated(f, ta).left) = FailedFields
        /\ FailedFields = {} =>
              /\ HasExactly(res, {"_tag", "right"})
              /\ HasExactly(Get(res, "right"), OwnNames(ta))
              /\ \A k \in OwnNames(ta) :
                    Get(Get(res, "right"), k) =
                        IF k \in DOMAIN f THEN Get(Handled(k), "right") ELSE Get(ta, k)

C6_Witness ==
    /\ op = "parse"
    /\ TagIs(res, "Right")
    /\ DOMAIN f # {}
    /\ DOMAIN f # OwnNames(ta)

\* parse succeeding with no parser at all
C6_WitnessNoParser == op = "parse" /\ DOMAIN f = {} /\ TagIs(res, "Right")

\* C7: when a parser fails, parse is a failure whose error map has the error
\* of every failed field and nothing else: no entry for a field that
\* succeeded or has no parser, and no parsed value.
C7_ParseCollectsAllErrors ==
    (op = "parse" /\ FailedFields # {}) =>
        /\ HasExactly(res, {"_tag", "left"})
        /\ TagIs(res, "Left")
        /\ HasExactly(Get(res, "left"), FailedFields)
        /\ \A k \in FailedFields : Get(Get(res, "left"), k) = Get(Handled(k), "left")

C7_Witness ==
    /\ op = "parse"
    /\ TagIs(res, "Left")
    /\ Cardinality(FailedFields) >= 2
    /\ \E k \in OwnNames(ta) : k \notin FailedFields

-----------------------------------------------------------------------------
(* Specification of traverseS under the error-accumulating validation     *)
(* effect, over every insertion order of the fields                        *)

InitOrder ==
    /\ ta \in UNION {StructsOver(q, Numbers) :
                       q \in UNION {Arrangements(K) : K \in (SUBSET Keys) \ {{}}}}
    /\ f \in HandlerMaps(ta, ValidationHandlers)
    /\ op = "none"
    /\ res = Undef
    /\ calls = <<>>
    /\ tb = Undef
    /\ heap = <<>>

TraverseValidation ==
    /\ op = "none"
    /\ op' = "traverseS"
    /\ res' = traverseS("Validation", f, ta).fr
    /\ calls' = traverseS("Validation", f, ta).calls
    /\ UNCHANGED <<ta, f, tb, heap>>

NextOrder == TraverseValidation

SpecOrder == InitOrder /\ [][NextOrder]_vars

\* the struct with the fields and values of a, inserted in ascending order
Reinserted(a) ==
    LET ks == Ascending(OwnNames(a))
    IN Obj([i \in 1..Len(ks) |-> Prop(ks[i], Get(a, ks[i]))])

\* the names of the fields whose handler fails, in the order of the string Ord
FailingInOrder ==
    SelectSeq(Ascending(OwnNames(ta)),
              LAMBDA k : k \in DOMAIN f /\ TagIs(Handled(k), "Left"))

\* C4: traverseS invokes the handlers and combines their effects in the order
\* the Ord gives to the field names, whatever the insertion order: the
\* handlers are called in ascending field order, the accumulated errors come
\* in that order, and the result is that of the same fields inserted in
\* ascending order.
C4_OrderOfTheOrd ==
    op = "traverseS" =>
        /\ calls = SelectSeq(Ascending(OwnNames(ta)), LAMBDA k : k \in DOMAIN f)
        /\ FailingInOrder # <<>> =>
              res = left(Arr([i \in 1..Len(FailingInOrder) |-> Str(FailingInOrder[i])]))
        /\ res = traverseS("Validation", f, Reinserted(ta)).fr

C4_Witness ==
    /\ op = "traverseS"
    /\ Len(ObjectKeys(ta)) >= 3
    /\ ObjectKeys(ta) # Ascending(OwnNames(ta))
    /\ ObjectKeys(ta) # Reverse(Ascending(OwnNames(ta)))
    /\ Len(FailingInOrder) >= 2
    /\ TagIs(res, "Left")

-----------------------------------------------------------------------------
(* Specification of compactS and unCompact *)

\* { _tag: 'None', value: 1 }: the absent tag with a further field
NoneWithPayload == Obj(<<Prop("_tag", Str("None")), Prop("value", Num(1))>>)

\* { _tag: 'Some', value: 1, extra: 1 }: the present tag with two further fields
SomeWithExtra ==
    Obj(<<Prop("_tag", Str("Some")), Prop("value", Num(1)), Prop("extra", Num(1))>>)

\* Object.create({ _tag: 'None' }): the absent tag reached through the prototype
InheritedNone == Obj(<<ProtoProp("_tag", Str("None"))>>)

\* { x: 1 }: an object that is no tagged value
Plain == Obj(<<Prop("x", Num(1))>>)

BridgeValues ==
    {Undef, Null, Num(1), none, some(Num(1)), Plain,
     NoneWithPayload, SomeWithExtra, InheritedNone}

\* structs of any size, the empty one included, fields in ascending order
BridgeStructs == UNION {StructsOver(Ascending(K), BridgeValues) : K \in SUBSET Keys}

InitBridge ==
    /\ ta \in BridgeStructs
    /\ f = <<>>
    /\ op = "none"
    /\ res = Undef
    /\ calls = <<>>
    /\ tb = Undef
    /\ heap = <<>>

CompactS ==
    /\ op = "none"
    /\ op' = "compactS"
    /\ res' = compactS(ta)
    /\ UNCHANGED <<ta, f, calls, tb, heap>>

UnCompact ==
    /\ op = "none"
    /\ op' = "unCompact"
    /\ res' = unCompact(ta)
    /\ UNCHANGED <<ta, f, calls, tb, heap>>

\* compactS(unCompact(s))
RoundTrip ==
    /\ op = "none"
    /\ op' = "roundTrip"
    /\ res' = compactS(unCompact(ta))
    /\ UNCHANGED <<ta, f, calls, tb, heap>>

NextBridge == CompactS \/ UnCompact \/ RoundTrip

SpecBridge == InitBridge /\ [][NextBridge]_vars

\* v is a present optional: { _tag: 'Some', value }
IsPresent(v) == HasExactly(v, {"_tag", "value"}) /\ TagIs(v, "Some")

\* v is an absent optional: { _tag: 'None' }
IsAbsent(v) == HasExactly(v, {"_tag"}) /\ TagIs(v, "None")

\* v is an optional container: the present tag with exactly one payload
\* field, or the absent tag with no payload, as own properties
IsContainer(v) == IsPresent(v) \/ IsAbsent(v)

\* C8: compactS(s) holds every present optional field unwrapped, has no key
\* for an absent optional field, holds every field that is no optional
\* container verbatim, and has no other key.
C8_CompactDropsAndUnwraps ==
    op = "compactS" =>
        /\ res.k = "object"
        /\ OwnNames(res) \subseteq OwnNames(ta)
        /\ Len(res.props) = Cardinality(OwnNames(res))
        /\ \A k \in OwnNames(ta) :
              /\ IsPresent(Get(ta, k)) =>
                    HasOwn(res, k) /\ Get(res, k) = Get(Get(ta, k), "value")
              /\ IsAbsent(Get(ta, k)) => ~HasOwn(res, k)
              /\ ~IsContainer(Get(ta, k)) => HasOwn(res, k) /\ Get(res, k) = Get(ta, k)

\* C9: unCompact(s) has exactly the own fields of s, absent where the raw
\* value is null or undefined and present(raw value) elsewhere; it never
\* fails.
C9_UnCompactWraps ==
    op = "unCompact" =>
        /\ HasExactly(res, OwnNames(ta))
        /\ \A k \in OwnNames(ta) :
              Get(res, k) = IF Get(ta, k) \in {Null, Undef} THEN none
                            ELSE some(Get(ta, k))

C9_Witness ==
    /\ op = "unCompact"
    /\ \E k \in OwnNames(ta) : Get(ta, k) = Null /\ Get(res, k) = none
    /\ \E k \in OwnNames(ta) : Get(ta, k) = Undef /\ Get(res, k) = none
    /\ \E k \in OwnNames(ta) : Get(res, k) = some(Get(ta, k))

\* no field of the struct is an optional container
NoWrappedFields == \A k \in OwnNames(ta) : ~IsContainer(Get(ta, k))

\* C10: for a struct s without optional-wrapped fields, compactS(unCompact(s))
\* is s restricted to its non-nullish fields: no key for a null or undefined
\* field, the original value in every other field.
C10_RoundTrip ==
    (op = "roundTrip" /\ NoWrappedFields) =>
        /\ HasExactly(res, {k \in OwnNames(ta) : Get(ta, k) \notin {Null, Undef}})
        /\ \A k \in OwnNames(res) : Get(res, k) = Get(ta, k)

C10_Witness ==
    /\ op = "roundTrip"
    /\ NoWrappedFields
    /\ \E k \in OwnNames(ta) : Get(ta, k) \in {Null, Undef} /\ ~HasOwn(res, k)
    /\ \E k \in OwnNames(ta) : HasOwn(res, k) /\ Get(res, k) = Get(ta, k)

\* v has the shape of an optional container only with the help of its
\* prototype: it is tagged, and the tag or the payload is not an own property
ShapeInherited(v) ==
    /\ v.k = "object"
    /\ In("_tag", v)
    /\ \/ ~HasOwn(v, "_tag")
       \/ (In("value", v) /\ ~HasOwn(v, "value"))

\* C21: compactS keeps verbatim, neither dropped nor unwrapped, every field
\* whose value has the container shape only through its prototype.
C21_InheritedShapeKept ==
    op = "compactS" =>
        \A k \in OwnNames(ta) :
            ShapeInherited(Get(ta, k)) => HasOwn(res, k) /\ Get(res, k) = Get(ta, k)

\* C22: compactS treats as a container only a present-tagged value with
\* exactly one payload field or an absent-tagged value with no payload; every
\* other value, an absent-tagged value with further fields included, is kept
\* under its key verbatim.
C22_OnlyExactContainers ==
    op = "compactS" =>
        \A k \in OwnNames(ta) :
            /\ IsPresent(Get(ta, k)) => HasOwn(res, k) /\ Get(res, k) = Get(Get(ta, k), "value")
            /\ IsAbsent(Get(ta, k)) => ~HasOwn(res, k)
            /\ (~IsContainer(Get(ta, k)) /\ ~ShapeInherited(Get(ta, k))) =>
                  HasOwn(res, k) /\ Get(res, k) = Get(ta, k)

\* C17: errors are data: refine, parse and traverseS under Option end by
\* returning an Option or Either value for every non-empty struct, null field
\* values included, and every handler map; none ends in a raised fault.
C17_ErrorsAreData ==
    /\ op \in {"refine", "traverseS"} => (TagIs(res, "Some") \/ TagIs(res, "None"))
    /\ op = "parse" => (TagIs(res, "Right") \/ TagIs(res, "Left"))

-----------------------------------------------------------------------------
(* Specification of the six combinators on structs with a prototype *)

\* the struct `own` created on a prototype that carries the field `name`
WithProto(own, name) == Obj(own.props \o <<ProtoProp(name, Num(1))>>)

\* the own fields of a alone
OwnOnly(a) == Obj(OwnProps(a))

\* the names a reaches through its prototype only
InheritedOnly(a) == {a.props[i].name : i \in 1..Len(a.props)} \ OwnNames(a)

\* structs of zero or more own fields, inserted in ascending order
AscendingStructs(V) == UNION {StructsOver(Ascending(K), V) : K \in SUBSET Keys}

\* handler maps may name the inherited field as well
AllNames(a) == {a.props[i].name : i \in 1..Len(a.props)}

InitOwn ==
    /\ \/ /\ ta \in {WithProto(s, p) : s \in AscendingStructs(Numbers), p \in Keys}
          /\ f \in UNION {[K -> {h}] : K \in SUBSET AllNames(ta),
                                       h \in {"typeName", "isOne", "parseOne", "optOne"}}
       \/ /\ ta \in {WithProto(s, p) :
                       s \in AscendingStructs({Null, none, some(Num(1))}), p \in Keys}
          /\ f = << >>
    /\ op = "none"
    /\ res = Undef
    /\ calls = <<>>
    /\ tb = Undef
    /\ heap = <<>>

NextOwn == Evolve \/ Refine \/ Parse \/ TraverseOption \/ CompactS \/ UnCompact

SpecOwn == InitOwn /\ [][NextOwn]_vars

\* the struct an outcome carries: the payload of a present or successful
\* outcome, the error record of a failed parse, else the outcome itself
Carried(v) ==
    IF TagIs(v, "Some") THEN Get(v, "value")
    ELSE IF TagIs(v, "Right") THEN Get(v, "right")
    ELSE IF TagIs(v, "Left") THEN Get(v, "left")
    ELSE v

\* C12: evolve, refine, parse, traverseS, compactS and unCompact see the own
\* fields only: the outcome is the outcome for the struct made of the own
\* fields alone, no field reached through the prototype only appears in it,
\* and no handler is called for such a field.
C12_OwnFieldsOnly ==
    /\ op = "evolve" => res = evolve(f, OwnOnly(ta))
    /\ op = "refine" => res = refine(f, OwnOnly(ta))
    /\ op = "parse" => res = parse(f, OwnOnly(ta))
    /\ op = "traverseS" =>
          /\ res = traverseS("Option", f, OwnOnly(ta)).fr
          /\ \A i \in 1..Len(calls) : calls[i] \in OwnNames(ta)
    /\ op = "compactS" => res = compactS(OwnOnly(ta))
    /\ op = "unCompact" => res = unCompact(OwnOnly(ta))
    /\ op # "none" => AllNames(Carried(res)) \cap InheritedOnly(ta) = {}

\* a parse that succeeds on a struct whose prototype carries a field of its
\* own, for which the handler map has a parser
C12_Witness ==
    /\ op = "parse"
    /\ TagIs(res, "Right")
    /\ OwnNames(ta) # {}
    /\ InheritedOnly(ta) \cap DOMAIN f # {}

-----------------------------------------------------------------------------
(* Specification of the field-editing utilities: mapAt, modifyAt, updateAt, *)
(* mapAtE, insertAt, let, bind and the assign semigroup                     *)

\* The target field and its transform are the one entry of f; tb is the
\* second operand: the value of updateAt, insertAt, let and bind, or the other
\* struct of concat.
InitEdit ==
    /\ ta \in AscendingStructs(Numbers)
    /\ \/ /\ f \in UNION {[{key} -> EvolveHandlers \cup OptionHandlers] : key \in Keys}
          /\ tb = Undef
       \/ /\ f \in UNION {[{key} -> {"constant"}] : key \in Keys}
          /\ tb \in {Null, Num(0)}
       \/ /\ f = << >>
          /\ tb \in AscendingStructs({Null, Num(1)})
    /\ op = "none"
    /\ res = Undef
    /\ calls = <<>>
    /\ heap = <<>>

\* the field the call names
Target == CHOOSE key \in DOMAIN f : TRUE

MapAt ==
    /\ op = "none"
    /\ f # << >> /\ Range(f) \subseteq EvolveHandlers
    /\ op' = "mapAt"
    /\ res' = mapAt(Target, HandlerFn(f[Target]), ta)
    /\ UNCHANGED <<ta, f, calls, tb, heap>>

ModifyAt ==
    /\ op = "none"
    /\ f # << >> /\ Range(f) \subseteq EvolveHandlers
    /\ op' = "modifyAt"
    /\ res' = modifyAt(Target, HandlerFn(f[Target]), ta)
    /\ UNCHANGED <<ta, f, calls, tb, heap>>

UpdateAt ==
    /\ op = "none"
    /\ f # << >> /\ Range(f) = {"constant"}
    /\ op' = "updateAt"
    /\ res' = updateAt(Target, tb, ta)
    /\ UNCHANGED <<ta, f, calls, tb, heap>>

\* mapAtE over the Option functor, applied to some(ta)
MapAtE ==
    /\ op = "none"
    /\ f # << >> /\ Range(f) \subseteq OptionHandlers
    /\ op' = "mapAtE"
    /\ res' = mapAtE("Option", Target, HandlerFn(f[Target]), some(ta))
    /\ UNCHANGED <<ta, f, calls, tb, heap>>

InsertAt ==
    /\ op = "none"
    /\ f # << >> /\ Range(f) = {"constant"}
    /\ op' = "insertAt"
    /\ res' = insertAt(Target, tb, ta)
    /\ UNCHANGED <<ta, f, calls, tb, heap>>

Let ==
    /\ op = "none"
    /\ f # << >> /\ Range(f) = {"constant"}
    /\ op' = "let"
    /\ res' = letFn(Target, tb, ta)
    /\ UNCHANGED <<ta, f, calls, tb, heap>>

Bind ==
    /\ op = "none"
    /\ f # << >> /\ Range(f) = {"constant"}
    /\ op' = "bind"
    /\ res' = bind(Target, constant(tb), ta)
    /\ UNCHANGED <<ta, f, calls, tb, heap>>

\* S.concat(ta)(tb): ta is the argument applied first
Concat ==
    /\ op = "none"
    /\ f = << >>
    /\ op' = "concat"
    /\ res' = getAssignSemigroup_concat(ta, tb)
    /\ UNCHANGED <<ta, f, calls, tb, heap>>

NextEdit ==
    MapAt \/ ModifyAt \/ UpdateAt \/ MapAtE \/ InsertAt \/ Let \/ Bind \/ Concat

SpecEdit == InitEdit /\ [][NextEdit]_vars

\* v is a struct whose own fields are those of `a`, each named once, all but
\* `key` with the value they have in `a`
SameButAt(v, a, key) ==
    /\ v.k = "object"
    /\ OwnNames(v) = OwnNames(a)
    /\ Len(OwnProps(v)) = Cardinality(OwnNames(a))
    /\ \A k \in OwnNames(a) \ {key} : Get(v, k) = Get(a, k)

\* C13: mapAt(k, f)(s), modifyAt(k, f)(s) and updateAt(k, v)(s) on a struct
\* that has field k return a struct with the fields of s, field k holding
\* f(s[k]) (v for updateAt) and every other field its value in s.
C13_MapAtFrame ==
    (op \in {"mapAt", "modifyAt", "updateAt"} /\ HasOwn(ta, Target)) =>
        /\ SameButAt(res, ta, Target)
        /\ Get(res, Target) = IF op = "updateAt" THEN tb
                               ELSE Handler(f[Target], Target, Get(ta, Target))

\* an update of one field of a struct of several fields to a new value
C13_Witness ==
    /\ op = "updateAt"
    /\ HasOwn(ta, Target)
    /\ Cardinality(OwnNames(ta)) >= 2
    /\ Get(res, Target) # Get(ta, Target)

\* C14: mapAtE(F)(k, f) with an effectful f, applied to the Option effect
\* some(s): absent when f returns absent, else some of the struct where
\* field k holds the value f produced and every other field its value in s.
C14_EffectfulFieldFlattened ==
    (op = "mapAtE" /\ HasOwn(ta, Target)) =>
        IF Handler(f[Target], Target, Get(ta, Target)) = none
        THEN res = none
        ELSE /\ TagIs(res, "Some")
             /\ SameButAt(Get(res, "value"), ta, Target)
             /\ Get(Get(res, "value"), Target) =
                    Get(Handler(f[Target], Target, Get(ta, Target)), "value")

\* the shallow merge of a and b in which the fields of b win
MergeInto(v, a, b) ==
    /\ v.k = "object"
    /\ OwnNames(v) = OwnNames(a) \cup OwnNames(b)
    /\ Len(OwnProps(v)) = Cardinality(OwnNames(a) \cup OwnNames(b))
    /\ \A k \in OwnNames(b) : Get(v, k) = Get(b, k)
    /\ \A k \in OwnNames(a) \ OwnNames(b) : Get(v, k) = Get(a, k)

\* C15 as stated: getAssignSemigroup().concat(first)(second) is the shallow
\* merge in which the fields of second, the argument applied last, win.
C15_LastAppliedWins == op = "concat" => MergeInto(res, ta, tb)

\* C15 amended: getAssignSemigroup().concat(x)(y) is the shallow merge of the
\* two structs in which the fields of x, the argument applied first, win:
\* pipe(y, concat(x)) is Object.assign({}, y, x).
C15_FirstAppliedWins == op = "concat" => MergeInto(res, tb, ta)

\* a concat of two structs that share a field with different values
C15_Witness ==
    /\ op = "concat"
    /\ \E k \in OwnNames(ta) \cap OwnNames(tb) : Get(ta, k) # Get(tb, k)
    /\ OwnNames(ta) \ OwnNames(tb) # {}

\* C19: insertAt, bind and let applied to a struct that already has the
\* target field never return a struct in which that field's value has been
\* overwritten.
C19_ExistingFieldKept ==
    (op \in {"insertAt", "let", "bind"} /\ HasOwn(ta, Target)) =>
        ~(res.k = "object" /\ Get(res, Target) # Get(ta, Target))

-----------------------------------------------------------------------------
(* Specification of traverseS under the Identity effect *)

\* every struct of Structs, and the struct with no field at all
InitIdentity ==
    /\ ta \in Structs(FieldValues) \cup {Obj(<<>>)}
    /\ f \in HandlerMaps(ta, EvolveHandlers)
    /\ op = "none"
    /\ res = Undef
    /\ calls = <<>>
    /\ tb = Undef
    /\ heap = <<>>

TraverseIdentity ==
    /\ op = "none"
    /\ op' = "traverseS"
    /\ res' = traverseS("Identity", f, ta).fr
    /\ calls' = traverseS("Identity", f, ta).calls
    /\ UNCHANGED <<ta, f, tb, heap>>

NextIdentity == TraverseIdentity

SpecIdentity == InitIdentity /\ [][NextIdentity]_vars

\* C16: traverseS with the identity effect and an empty handler map returns,
\* for every non-empty struct, a struct equal to it: same fields, same values.
C16_IdentityTraverse ==
    (op = "traverseS" /\ f = << >> /\ OwnNames(ta) # {}) =>
        /\ res.k = "object"
        /\ Len(OwnProps(res)) = Cardinality(OwnNames(ta))
        /\ AsMap(res) = AsMap(ta)

\* an identity traversal of a struct of several fields, one of them null,
\* inserted in an order that is not the order of the Ord
C16_Witness ==
    /\ op = "traverseS"
    /\ f = << >>
    /\ Cardinality(OwnNames(ta)) >= 2
    /\ ObjectKeys(ta) # R_keys(ta)
    /\ \E k \in OwnNames(ta) : Get(ta, k) = Null

\* C18: traverseS on a struct with zero own fields never returns an effect
\* that wraps a struct; under the identity effect, never a struct.
C18_EmptyStructRejected ==
    (op = "traverseS" /\ OwnNames(ta) = {}) => res.k # "object"

-----------------------------------------------------------------------------
(* Specification of the operations on structs that live in the heap: the   *)
(* input ta is the object at address 1, the second struct of concat, tb,   *)
(* the object at address 2; ta and tb keep the inputs as they were passed. *)

\* an outcome built by an object literal, a spread or a ReadonlyRecord
\* helper: the struct it carries is a new object
Fresh(h, v) ==
    IF v = Throw \/ v = none THEN [heap |-> h, val |-> v]
    ELSE IF TagIs(v, "Some")
    THEN [heap |-> Append(h, Get(v, "value")), val |-> some(Ref(Len(h) + 1))]
    ELSE IF TagIs(v, "Right")
    THEN [heap |-> Append(h, Get(v, "right")), val |-> right(Ref(Len(h) + 1))]
    ELSE IF TagIs(v, "Left")
    THEN [heap |-> Append(h, Get(v, "left")), val |-> left(Ref(Len(h) + 1))]
    ELSE [heap |-> Append(h, v), val |-> Ref(Len(h) + 1)]

\* a field name no input struct has
NewName == Alphabet[Len(Alphabet)]

NonEmptyStructs(V) == AscendingStructs(V) \ {Obj(<<>>)}

\* f is a handler map of one handler family, a selection of field names
\* (every selected name mapped to "key"), or empty with a second struct tb
InitFrame ==
    /\ ta \in NonEmptyStructs({Num(1), some(Num(1))})
    /\ \/ /\ f \in UNION {[K -> {h}] : K \in SUBSET OwnNames(ta),
                                       h \in {"succ", "isOne", "parseOne", "optOne"}}
                  \cup HandlerMaps(ta, ArrayHandlers)
          /\ tb = Undef
       \/ /\ f \in UNION {[K -> {"key"}] : K \in (SUBSET Keys) \ {{}}}
          /\ tb = Undef
       \/ /\ f = << >>
          /\ tb \in AscendingStructs({Num(2)})
    /\ heap = IF tb = Undef THEN <<ta>> ELSE <<ta, tb>>
    /\ op = "none"
    /\ res = Undef
    /\ calls = <<>>

\* the operations that build their result with a literal or a helper
FrameEvolve ==
    /\ op = "none" /\ tb = Undef
    /\ Range(f) \subseteq EvolveHandlers
    /\ op' = "evolve"
    /\ heap' = Fresh(heap, evolve(f, heap[1])).heap
    /\ res' = Fresh(heap, evolve(f, heap[1])).val
    /\ UNCHANGED <<ta, f, calls, tb>>

FrameRefine ==
    /\ op = "none" /\ tb = Undef
    /\ Range(f) \subseteq RefineHandlers
    /\ op' = "refine"
    /\ heap' = Fresh(heap, refine(f, heap[1])).heap
    /\ res' = Fresh(heap, refine(f, heap[1])).val
    /\ UNCHANGED <<ta, f, calls, tb>>

FrameParse ==
    /\ op = "none" /\ tb = Undef
    /\ Range(f) \subseteq ParseHandlers
    /\ op' = "parse"
    /\ heap' = Fresh(heap, parse(f, heap[1])).heap
    /\ res' = Fresh(heap, parse(f, heap[1])).val
    /\ UNCHANGED <<ta, f, calls, tb>>

FrameCompactS ==
    /\ op = "none" /\ tb = Undef
    /\ f = << >>
    /\ op' = "compactS"
    /\ heap' = Fresh(heap, compactS(heap[1])).heap
    /\ res' = Fresh(heap, compactS(heap[1])).val
    /\ UNCHANGED <<ta, f, calls, tb>>

FrameUnCompact ==
    /\ op = "none" /\ tb = Undef
    /\ f = << >>
    /\ op' = "unCompact"
    /\ heap' = Fresh(heap, unCompact(heap[1])).heap
    /\ res' = Fresh(heap, unCompact(heap[1])).val
    /\ UNCHANGED <<ta, f, calls, tb>>

\* the selected names, as the array a caller passes
Selected == Ascending(DOMAIN f)

FrameRenameAt ==
    /\ op = "none"
    /\ Range(f) = {"key"} /\ Cardinality(DOMAIN f) = 1
    /\ op' = "renameAt"
    /\ heap' = Fresh(heap, renameAt(Target, NewName, heap[1])).heap
    /\ res' = Fresh(heap, renameAt(Target, NewName, heap[1])).val
    /\ UNCHANGED <<ta, f, calls, tb>>

FrameMapAt ==
    /\ op = "none"
    /\ Range(f) = {"key"} /\ Cardinality(DOMAIN f) = 1
    /\ \E g \in {"mapAt", "modifyAt", "updateAt"} :
          /\ op' = g
          /\ LET v == CASE g = "mapAt" -> mapAt(Target, HandlerFn("typeName"), heap[1])
                         [] g = "modifyAt" -> modifyAt(Target, HandlerFn("succ"), heap[1])
                         [] g = "updateAt" -> updateAt(Target, Null, heap[1])
             IN /\ heap' = Fresh(heap, v).heap
                /\ res' = Fresh(heap, v).val
    /\ UNCHANGED <<ta, f, calls, tb>>

\* the operations that write into an object
FramePick ==
    /\ op = "none"
    /\ Range(f) = {"key"}
    /\ op' = "pick"
    /\ heap' = pick_ref(heap, Selected, Ref(1)).heap
    /\ res' = pick_ref(heap, Selected, Ref(1)).val
    /\ UNCHANGED <<ta, f, calls, tb>>

FrameOmit ==
    /\ op = "none"
    /\ Range(f) = {"key"}
    /\ op' = "omit"
    /\ heap' = omit_ref(heap, Selected, Ref(1)).heap
    /\ res' = omit_ref(heap, Selected, Ref(1)).val
    /\ UNCHANGED <<ta, f, calls, tb>>

\* S.concat(tb)(ta), that is pipe(ta, S.concat(tb))
FrameConcat ==
    /\ op = "none"
    /\ tb # Undef
    /\ op' = "concat"
    /\ heap' = getAssignSemigroup_concat_ref(heap, Ref(2), Ref(1)).heap
    /\ res' = getAssignSemigroup_concat_ref(heap, Ref(2), Ref(1)).val
    /\ UNCHANGED <<ta, f, calls, tb>>

FrameTraverseOption ==
    /\ op = "none" /\ tb = Undef
    /\ Range(f) \subseteq OptionHandlers
    /\ op' = "traverseS"
    /\ heap' = traverseS_ref(heap, "Option", f, Ref(1)).heap
    /\ res' = traverseS_ref(heap, "Option", f, Ref(1)).fr
    /\ calls' = traverseS_ref(heap, "Option", f, Ref(1)).calls
    /\ UNCHANGED <<ta, f, tb>>

FrameTraverseArray ==
    /\ op = "none" /\ tb = Undef
    /\ f # << >> /\ Range(f) \subseteq ArrayHandlers
    /\ op' = "traverseArray"
    /\ heap' = traverseS_ref(heap, "ReadonlyArray", f, Ref(1)).heap
    /\ res' = traverseS_ref(heap, "ReadonlyArray", f, Ref(1)).fr
    /\ calls' = traverseS_ref(heap, "ReadonlyArray", f, Ref(1)).calls
    /\ UNCHANGED <<ta, f, tb>>

NextFrame ==
    \/ FrameEvolve \/ FrameRefine \/ FrameParse \/ FrameCompactS \/ FrameUnCompact
    \/ FrameRenameAt \/ FrameMapAt \/ FramePick \/ FrameOmit \/ FrameConcat
    \/ FrameTraverseOption \/ FrameTraverseArray

SpecFrame == InitFrame /\ [][NextFrame]_vars

\* the addresses of the structs an outcome returns: the outcome itself, the
\* payload of an Option or Either, or the elements of an array
Returned(v) ==
    IF v.k = "ref" THEN {v.n}
    ELSE {v.props[i].val.n : i \in {j \in 1..Len(v.props) : v.props[j].val.k = "ref"}}

\* the addresses of the input structs
Inputs == IF tb = Undef THEN {1} ELSE {1, 2}

\* C11: no operation changes an input struct: after the call every input
\* has the fields and the values it was passed with, and every struct the
\* call returns is an object other than the inputs.
C11_InputsUntouched ==
    op # "none" =>
        /\ heap[1] = ta
        /\ tb # Undef => heap[2] = tb
        /\ Returned(res) \cap Inputs = {}

\* an omit that removes some of the fields the input has
C11_Witness ==
    /\ op = "omit"
    /\ DOMAIN f \cap OwnNames(ta) # {}
    /\ OwnNames(heap[res.n]) # {}
    /\ OwnNames(heap[res.n]) # OwnNames(ta)

\* the outcomes of the field k: those of its handler, or the raw value alone
Outcomes(k) ==
    IF k \in DOMAIN f THEN Items(Handler(f[k], k, Get(ta, k))) ELSE <<Get(ta, k)>>

\* the reference applicative traversal of the fields ks over the
\* ReadonlyArray effect: every struct of `acc` extended with every outcome of
\* the next field, earlier fields varying slowest
RECURSIVE Reference(_, _)
Reference(ks, acc) ==
    IF ks = <<>> THEN acc
    ELSE LET outs == Outcomes(Head(ks))
         IN Reference(Tail(ks),
                [j \in 1..(Len(acc) * Len(outs)) |->
                    Set(acc[((j - 1) \div Len(outs)) + 1], Head(ks),
                        outs[((j - 1) % Len(outs)) + 1])])

\* C20: traverseS under the ReadonlyArray applicative, on a struct of two or
\* more fields whose handlers each return two outcomes, returns the reference
\* applicative traversal: one struct per combination of outcomes, each a
\* distinct object holding the outcomes of its own combination.
C20_ReferenceTraversal ==
    (/\ op = "traverseArray"
     /\ DOMAIN f = OwnNames(ta)
     /\ Cardinality({k \in DOMAIN f : f[k] = "both"}) >= 2) =>
        LET expected == Reference(R_keys(ta), <<Obj(<<>>)>>)
        IN /\ res.k = "array"
           /\ Len(Items(res)) = Len(expected)
           /\ \A j \in 1..Len(expected) :
                 /\ Items(res)[j].k = "ref"
                 /\ AsMap(heap[Items(res)[j].n]) = AsMap(expected[j])
           /\ \A i, j \in 1..Len(Items(res)) : Items(res)[i] = Items(res)[j] => i = j

-----------------------------------------------------------------------------
(* Specification of pick and omit, in both revisions of the module *)

\* the key list is the selection f, in ascending order
InitPartition ==
    /\ ta \in Structs(FieldValues) \cup {Obj(<<>>)}
    /\ f \in UNION {[K -> {"key"}] : K \in SUBSET Keys}
    /\ op = "none"
    /\ res = Undef
    /\ calls = <<>>
    /\ tb = Undef
    /\ heap = <<>>

Pick ==
    /\ op = "none"
    /\ op' = "pick"
    /\ res' = pick(Selected, ta)
    /\ UNCHANGED <<ta, f, calls, tb, heap>>

Omit ==
    /\ op = "none"
    /\ op' = "omit"
    /\ res' = omit(Selected, ta)
    /\ UNCHANGED <<ta, f, calls, tb, heap>>

PickRest ==
    /\ op = "none"
    /\ op' = "pickRest"
    /\ res' = pick_rest(Selected, ta)
    /\ UNCHANGED <<ta, f, calls, tb, heap>>

OmitRest ==
    /\ op = "none"
    /\ op' = "omitRest"
    /\ res' = omit_rest(Selected, ta)
    /\ UNCHANGED <<ta, f, calls, tb, heap>>

NextPartition == Pick \/ Omit \/ PickRest \/ OmitRest

SpecPartition == InitPartition /\ [][NextPartition]_vars

\* v holds exactly the fields `names`, each with the value it has in ta
Restriction(v, names) ==
    /\ HasExactly(v, names)
    /\ \A k \in names : Get(v, k) = Get(ta, k)

\* C23: for a key list ks within the own fields of s, pick(ks)(s) has exactly
\* the keys ks and omit(ks)(s) exactly the other own keys of s, both with the
\* values of s: their key sets are disjoint and their shallow merge is s.
C23_PickOmitPartition ==
    DOMAIN f \subseteq OwnNames(ta) =>
        /\ op \in {"pick", "pickRest"} =>
              /\ Restriction(res, DOMAIN f)
              /\ \A other \in {omit(Selected, ta), omit_rest(Selected, ta)} :
                    /\ OwnNames(res) \cap OwnNames(other) = {}
                    /\ AsMap(Spread(res, other)) = AsMap(ta)
        /\ op \in {"omit", "omitRest"} =>
              /\ Restriction(res, OwnNames(ta) \ DOMAIN f)
              /\ \A other \in {pick(Selected, ta), pick_rest(Selected, ta)} :
                    /\ OwnNames(res) \cap OwnNames(other) = {}
                    /\ AsMap(Spread(other, res)) = AsMap(ta)

\* a pick of some, not all, of the fields of a struct
C23_Witness ==
    /\ op = "pick"
    /\ DOMAIN f \subseteq OwnNames(ta)
    /\ DOMAIN f # {}
    /\ DOMAIN f # OwnNames(ta)
    /\ OwnNames(res) = DOMAIN f

====
